---- MODULE Spec2Model ----
(***************************************************************************)
(* A model of FaxJs' native dom tag components (coreModules/FDom/FDom.js)   *)
(* and of the typeahead's static search (StaticAsyncSearch.js).             *)
(*                                                                          *)
(* One component instance made by makeDomContainerComponent is modelled,    *)
(* with one level of leaf children.  updateAllProps and genMarkup are       *)
(* translated from FDom.js.  The collaborators FDom.js imports from 'Fax'   *)
(* (FErrors, FDomGeneration, FDomMutation, FDomTraversal) are not part of   *)
(* the sources at hand and are modelled from the written specification.     *)
(***************************************************************************)
EXTENDS Integers, Sequences, FiniteSets, TLC

(* ------------------------------------------------------------------ *)
(* Bounds of the model                                                *)
(* ------------------------------------------------------------------ *)

\* The longest child collection an input properties record carries.
MaxLen == 3

\* The most calls made to the searchers in one run.
MaxCalls == 3

(* ------------------------------------------------------------------ *)
(* Values                                                             *)
(* ------------------------------------------------------------------ *)

\* A JavaScript value that may be undefined: <<>> or <<v>>.
None == <<>>

Some(v) == <<v>>

Range(s) == {s[i] : i \in DOMAIN s}

Min(a, b) == IF a <= b THEN a ELSE b

\* Names used as keys of a childSet or as names of legacy named children.
\* "0" and "1" coincide with the index keys of a childList.
Keys == {"0", "1", "a"}

\* The property key an array index has: index 0 is key "0", and so on.
IndexKey(i) == <<"0", "1", "2", "3", "4", "5">>[i]

\* Values of the width attribute of a child; 1 is the usual one.
Widths == {1, 2}

\* Values of the content property.
Contents == {"x", "y"}

\* The id roots genMarkup is called with.
IdRoots == {"r", "s"}

\* The properties of a child: a leaf tag component with a width attribute
\* and a click handler.
ChildProps == [width : Widths, onClick : {"h"}]

KeyedEntries == [key : Keys, child : ChildProps]

DistinctKeys(s) == \A i, j \in DOMAIN s : i # j => s[i].key # s[j].key

\* The arrays a childList may be.  The width of a child varies between
\* renders for the first child of an array and for the child named "a" of an
\* object; every other child has width 1.
Lists ==
  {l \in UNION {[1..n -> ChildProps] : n \in 0..MaxLen} :
     \A i \in DOMAIN l : i # 1 => l[i].width = 1}

\* The objects a childSet may be, as the sequence of their entries in
\* enumeration order.
KeyedSeqs ==
  {s \in UNION {[1..n -> KeyedEntries] : n \in 0..Min(MaxLen, Cardinality(Keys))} :
     /\ DistinctKeys(s)
     /\ \A i \in DOMAIN s : s[i].key # "a" => s[i].child.width = 1}

\* A properties record of the root component: the content property, the
\* childList, the childSet, and the remaining named properties that are
\* neither tag attributes nor handlers (the legacy way to name children).
MkProps(c, l, s, n) == [content |-> c, childList |-> l, childSet |-> s, named |-> n]

NarrowOne(k) == <<[key |-> k, child |-> [width |-> 1, onClick |-> "h"]]>>

\* Records that use one way of specifying children.
ListProps == {MkProps(None, Some(l), None, <<>>) : l \in Lists}

SetProps == {MkProps(None, None, Some(s), <<>>) : s \in KeyedSeqs}

LegacyProps == {MkProps(None, None, None, n) : n \in {s \in KeyedSeqs : Len(s) <= 1}}

\* Records that use several at once.
MixedProps ==
  {MkProps(None, l, s, n) :
     l \in {None, Some(<<>>), Some(<<[width |-> 2, onClick |-> "h"]>>)},
     s \in {None, Some(<<>>), Some(NarrowOne("a"))},
     n \in {<<>>, NarrowOne("1")}}

\* Records with the content property and no children.
ContentProps == {MkProps(Some(c), None, None, <<>>) : c \in Contents}

Props == ListProps \cup SetProps \cup LegacyProps \cup MixedProps \cup ContentProps

(* ------------------------------------------------------------------ *)
(* The child collection of a properties record                        *)
(* ------------------------------------------------------------------ *)

\* A child collection as the reconciler and the generator receive it: an
\* array (identity = index) or an object (identity = key), as the sequence
\* of its (key, child) entries.
FromArray(l) ==
  [shape |-> "list", items |-> [i \in DOMAIN l |-> [key |-> IndexKey(i), child |-> l[i]]]]

FromObject(s) == [shape |-> "keyed", items |-> s]

\* FDomTraversal.extractChildrenLegacy: the named properties that are neither
\* tag attributes nor handlers, as an object.
extractChildrenLegacy(p) == FromObject(p.named)

\* A mutant of updateChildren: the childSet is looked at before the childList.
updateChildrenSetFirst(nextProps) ==
  IF nextProps.childSet # None THEN FromObject(nextProps.childSet[1])
  ELSE IF nextProps.childList # None THEN FromArray(nextProps.childList[1])
  ELSE extractChildrenLegacy(nextProps)

\* A mutant of updateChildren: only the legacy named children are looked at.
updateChildrenLegacyOnly(nextProps) == extractChildrenLegacy(nextProps)

\* A mutant of updateChildren: an array is handed on as the object of its
\* index keys.
updateChildrenAsObject(nextProps) ==
  IF nextProps.childList # None THEN FromObject(FromArray(nextProps.childList[1]).items)
  ELSE IF nextProps.childSet # None THEN FromObject(nextProps.childSet[1])
  ELSE extractChildrenLegacy(nextProps)

\* nextProps[CHILD_LIST_KEY] || nextProps[CHILD_SET_KEY] ||
\* extractChildrenLegacy(nextProps): an array and an object are truthy even
\* when empty, undefined is falsy.
updateChildren(nextProps) ==
  IF nextProps.childList # None THEN FromArray(nextProps.childList[1])
  ELSE IF nextProps.childSet # None THEN FromObject(nextProps.childSet[1])
  ELSE extractChildrenLegacy(nextProps)

\* A mutant of genChildren: the childSet is looked at before the childList.
genChildrenSetFirst(p) ==
  IF p.childSet # None THEN FromObject(p.childSet[1])
  ELSE IF p.childList # None THEN FromArray(p.childList[1])
  ELSE extractChildrenLegacy(p)

\* props[CHILD_LIST_KEY] || props[CHILD_SET_KEY] || extractChildrenLegacy(props)
genChildren(p) ==
  IF p.childList # None THEN FromArray(p.childList[1])
  ELSE IF p.childSet # None THEN FromObject(p.childSet[1])
  ELSE extractChildrenLegacy(p)

(* ------------------------------------------------------------------ *)
(* The live document                                                  *)
(* ------------------------------------------------------------------ *)

\* The id of the child with identity key `key` of the node with id `root`.
ChildId(root, key) == root \o "." \o key

\* A child node of the live document.  marker is a property planted on the
\* node before an update to recognise the node instance afterwards: the
\* identity (shape and key) the node backed before the update.
DocNode(id, w) == [domId |-> id, width |-> w, marker |-> None]

HasId(D, id) == \E j \in DOMAIN D : D[j].domId = id

PosOfId(D, id) == CHOOSE j \in DOMAIN D : D[j].domId = id

RemoveAt(D, j) == SubSeq(D, 1, j - 1) \o SubSeq(D, j + 1, Len(D))

InsertAt(D, i, n) == SubSeq(D, 1, i - 1) \o <<n>> \o SubSeq(D, i, Len(D))

HasKey(items, k) == \E i \in DOMAIN items : items[i].key = k

ChildOfKey(items, k) == items[CHOOSE i \in DOMAIN items : items[i].key = k].child

Op(name, id) == [op |-> name, id |-> id]

Call(fn, selfProps, args) == [fn |-> fn, props |-> selfProps, args |-> args]

(* ------------------------------------------------------------------ *)
(* The collaborators imported from 'Fax'                              *)
(*                                                                    *)
(* A world W is the instance (props, rootDomId, rootDomNode, kids),   *)
(* the live document below the instance's node (docContent, docKids), *)
(* the delegation registry, and what the last operation did (log: the *)
(* collaborators it called; ops: the document mutations it issued;    *)
(* thrown: the error it raised).                                      *)
(* ------------------------------------------------------------------ *)

NoKids == [shape |-> "none", items |-> <<>>]

Logged(W, fn, args) == [W EXCEPT !.log = Append(@, Call(fn, W.props, args))]

\* FErrors.throwIf(cond, error) when cond holds.
Throw(W, error) == [W EXCEPT !.thrown = Some(error)]

\* The error a collaborator raises when it fails.
Failure(fn) == fn \o " failed"

\* W.fault names the collaborator that fails in the operation under way, or
\* is "none".  A collaborator that fails raises its error on entry.
Fails(W, fn) == W.fault = fn

\* FDomMutation.controlSingleDomNode(el, elemId, nextProps, lastProps) on the
\* instance's own node: a content property that differs from the old one
\* replaces the inner content wholesale; one that is gone is reset.  The
\* element is looked up by id when a property has to be applied and no
\* element was passed.  Gives the world and the element returned.
controlSingleDomNode(W, el, elemId, nextProps, lastProps) ==
  LET changed == nextProps.content # lastProps.content
  IN  IF Fails(W, "controlSingleDomNode")
      THEN [w |-> Throw(W, Failure("controlSingleDomNode")), el |-> el]
      ELSE
      [w  |-> IF changed
              THEN [W EXCEPT !.docContent = nextProps.content,
                             !.docKids = IF nextProps.content # None THEN <<>> ELSE @,
                             !.ops = Append(@, Op("setContent", elemId))]
              ELSE W,
       el |-> IF el # None THEN el ELSE IF changed THEN Some(elemId) ELSE None]

\* controlSingleDomNode on the node of a child that keeps its identity: the
\* width attribute is applied when its value changed.  A is the document's
\* children, the mutations issued and the registry.
controlChildNode(A, j, nextChild, lastChild) ==
  IF nextChild.width # lastChild.width
  THEN [A EXCEPT !.doc[j].width = nextChild.width,
                 !.ops = Append(@, Op("setAttr", A.doc[j].domId))]
  ELSE A

\* Steps 2 and 3 of child reconciliation: walk the new entries with a cursor
\* i over the document's children.  An entry whose key is in the old lookup
\* is updated in place and moved before the cursor's node when it is not
\* there; any other is generated and inserted at the cursor.
RECURSIVE placeChildren(_, _, _, _, _)
placeChildren(A, root, items, oldItems, i) ==
  IF i > Len(items) THEN A
  ELSE LET it == items[i]
           id == ChildId(root, it.key)
       IN  IF HasKey(oldItems, it.key) /\ HasId(A.doc, id)
           THEN LET j == PosOfId(A.doc, id)
                    B == controlChildNode(A, j, it.child, ChildOfKey(oldItems, it.key))
                    C == IF j = i THEN B
                         ELSE [B EXCEPT !.doc = InsertAt(RemoveAt(B.doc, j), i, B.doc[j]),
                                        !.ops = Append(@, Op("move", id))]
                IN  placeChildren(C, root, items, oldItems, i + 1)
           ELSE placeChildren(
                  [A EXCEPT !.doc = InsertAt(@, i, DocNode(id, it.child.width)),
                            !.ops = Append(@, Op("insert", id)),
                            !.reg = @ \cup {id}],
                  root, items, oldItems, i + 1)

\* Step 4: the node of every old key that is not among keep is removed and
\* its delegation entries are purged.
RECURSIVE removeChildren(_, _, _, _, _)
removeChildren(A, root, oldItems, keep, i) ==
  IF i > Len(oldItems) THEN A
  ELSE LET id == ChildId(root, oldItems[i].key)
       IN  IF oldItems[i].key \in keep
           THEN removeChildren(A, root, oldItems, keep, i + 1)
           ELSE removeChildren(
                  [A EXCEPT !.doc = IF HasId(@, id) THEN RemoveAt(@, PosOfId(@, id)) ELSE @,
                            !.ops = IF HasId(A.doc, id)
                                    THEN @ \o <<Op("remove", id), Op("purge", id)>>
                                    ELSE Append(@, Op("purge", id)),
                            !.reg = @ \ {id}],
                  root, oldItems, keep, i + 1)

KeysOf(items) == {items[i].key : i \in DOMAIN items}

\* FDomMutation.reconcileDomChildren.call(this, nextChildren).  A collection
\* of another shape than the old one holds entirely new identities: every
\* old child is removed and every new one inserted fresh.
reconcileDomChildren(W, nextChildren) ==
  LET root == W.rootDomId[1]
      old  == W.kids
      A0   == [doc |-> W.docKids, ops |-> W.ops, reg |-> W.registry]
      A    == IF old.shape = nextChildren.shape
              THEN removeChildren(
                     placeChildren(A0, root, nextChildren.items, old.items, 1),
                     root, old.items, KeysOf(nextChildren.items), 1)
              ELSE placeChildren(
                     removeChildren(A0, root, old.items, {}, 1),
                     root, nextChildren.items, <<>>, 1)
  IN  IF Fails(W, "reconcileDomChildren")
      THEN Throw(W, Failure("reconcileDomChildren"))
      ELSE [W EXCEPT !.docKids = A.doc, !.ops = A.ops, !.registry = A.reg,
                     !.kids = nextChildren]

\* FDomGeneration.generateSingleDomAttributes.call(this, idRoot): the id and
\* the content of the open tag.  The instance is given idRoot as its id the
\* first time.
generateSingleDomAttributes(W, idRoot) ==
  IF Fails(W, "generateSingleDomAttributes")
  THEN [w |-> Throw(W, Failure("generateSingleDomAttributes")), markup |-> None]
  ELSE
  [w      |-> IF W.rootDomId = None THEN [W EXCEPT !.rootDomId = Some(idRoot)] ELSE W,
   markup |-> [id |-> idRoot, content |-> W.props.content]]

\* The markup of a child: child.genMarkup(idRoot + '.' + key).
childMarkup(idRoot, it) ==
  [open |-> "<span", id |-> ChildId(idRoot, it.key), width |-> it.child.width,
   close |-> "</span>"]

\* FDomGeneration.generateDomChildren.call(this, idRoot, children): the
\* markup of every child in the collection's order.  The instance keeps the
\* collection as its children.
generateDomChildren(W, idRoot, children) ==
  IF Fails(W, "generateDomChildren")
  THEN [w |-> Throw(W, Failure("generateDomChildren")), markup |-> None]
  ELSE
  [w      |-> [W EXCEPT !.kids = children],
   markup |-> [i \in DOMAIN children.items |-> childMarkup(idRoot, children.items[i])]]

(* ------------------------------------------------------------------ *)
(* FDom.js: the methods of NativeComponentConstructor                 *)
(* ------------------------------------------------------------------ *)

\* The component classes of the model: FDom.Div for the instance,
\* FDom.Span for its children.
tagOpen == "<div"

tagClose == "</div>"

CONTROL_WITHOUT_BACKING_DOM == "CONTROL_WITHOUT_BACKING_DOM"

\* new NativeComponentConstructor(initProps): this.props = initProps.
NativeComponentConstructor(initProps) ==
  [props |-> initProps, rootDomId |-> None, rootDomNode |-> None, kids |-> NoKids,
   docContent |-> None, docKids |-> <<>>, registry |-> {},
   log |-> <<>>, ops |-> <<>>, thrown |-> None, fault |-> "none"]

\* Mutant: the children are reconciled before the node itself.
updateAllPropsChildrenFirst(W, nextProps) ==
  IF W.rootDomId = None THEN Throw(W, CONTROL_WITHOUT_BACKING_DOM)
  ELSE LET ch == updateChildren(nextProps)
           W1 == reconcileDomChildren(Logged(W, "reconcileDomChildren", <<ch>>), ch)
           c  == controlSingleDomNode(
                   Logged(W1, "controlSingleDomNode", <<nextProps, W1.props>>),
                   W1.rootDomNode, W1.rootDomId[1], nextProps, W1.props)
       IN  [c.w EXCEPT !.rootDomNode = c.el, !.props = nextProps]

\* Mutant: the backing node is checked after the properties are mutated.
updateAllPropsLateCheck(W, nextProps) ==
  IF W.rootDomId = None
  THEN Throw([W EXCEPT !.props = nextProps], CONTROL_WITHOUT_BACKING_DOM)
  ELSE LET c  == controlSingleDomNode(
                   Logged(W, "controlSingleDomNode", <<nextProps, W.props>>),
                   W.rootDomNode, W.rootDomId[1], nextProps, W.props)
           W2 == [c.w EXCEPT !.rootDomNode = c.el, !.props = nextProps]
           ch == updateChildren(nextProps)
       IN  reconcileDomChildren(Logged(W2, "reconcileDomChildren", <<ch>>), ch)

\* Mutant: the children are not reconciled when the content was replaced.
updateAllPropsSkipOnContent(W, nextProps) ==
  IF W.rootDomId = None THEN Throw(W, CONTROL_WITHOUT_BACKING_DOM)
  ELSE LET c  == controlSingleDomNode(
                   Logged(W, "controlSingleDomNode", <<nextProps, W.props>>),
                   W.rootDomNode, W.rootDomId[1], nextProps, W.props)
           W2 == [c.w EXCEPT !.rootDomNode = c.el, !.props = nextProps]
           ch == updateChildren(nextProps)
       IN  IF nextProps.content # None /\ nextProps.content # W.props.content
           THEN W2
           ELSE reconcileDomChildren(Logged(W2, "reconcileDomChildren", <<ch>>), ch)

\* Mutant: the children reconciled are those of the old properties.
updateAllPropsStaleChildren(W, nextProps) ==
  IF W.rootDomId = None THEN Throw(W, CONTROL_WITHOUT_BACKING_DOM)
  ELSE LET c  == controlSingleDomNode(
                   Logged(W, "controlSingleDomNode", <<nextProps, W.props>>),
                   W.rootDomNode, W.rootDomId[1], nextProps, W.props)
           W2 == [c.w EXCEPT !.rootDomNode = c.el, !.props = nextProps]
           ch == updateChildren(W.props)
       IN  reconcileDomChildren(Logged(W2, "reconcileDomChildren", <<ch>>), ch)

\* Mutant: props is assigned before the node is reconciled.
updateAllPropsPropsFirst(W, nextProps) ==
  IF W.rootDomId = None THEN Throw(W, CONTROL_WITHOUT_BACKING_DOM)
  ELSE LET W0 == [W EXCEPT !.props = nextProps]
           c  == controlSingleDomNode(
                   Logged(W0, "controlSingleDomNode", <<nextProps, W.props>>),
                   W.rootDomNode, W.rootDomId[1], nextProps, W.props)
           W2 == [c.w EXCEPT !.rootDomNode = c.el]
           ch == updateChildren(nextProps)
       IN  IF c.w.thrown # None THEN c.w
           ELSE reconcileDomChildren(Logged(W2, "reconcileDomChildren", <<ch>>), ch)

\* Mutant: props is assigned after the children are reconciled.
updateAllPropsLateAssign(W, nextProps) ==
  IF W.rootDomId = None THEN Throw(W, CONTROL_WITHOUT_BACKING_DOM)
  ELSE LET c  == controlSingleDomNode(
                   Logged(W, "controlSingleDomNode", <<nextProps, W.props>>),
                   W.rootDomNode, W.rootDomId[1], nextProps, W.props)
           W1 == [c.w EXCEPT !.rootDomNode = c.el]
           ch == updateChildren(nextProps)
           W2 == reconcileDomChildren(Logged(W1, "reconcileDomChildren", <<ch>>), ch)
       IN  IF c.w.thrown # None THEN c.w
           ELSE IF W2.thrown # None THEN W2
           ELSE [W2 EXCEPT !.props = nextProps]

\* NativeComponentConstructor.prototype.updateAllProps(nextProps)
\* An exception of controlSingleDomNode leaves the method at line 129.
updateAllProps(W, nextProps) ==
  IF W.rootDomId = None THEN Throw(W, CONTROL_WITHOUT_BACKING_DOM)
  ELSE LET c  == controlSingleDomNode(
                   Logged(W, "controlSingleDomNode", <<nextProps, W.props>>),
                   W.rootDomNode, W.rootDomId[1], nextProps, W.props)
           W1 == [c.w EXCEPT !.rootDomNode = c.el]
           W2 == [W1 EXCEPT !.props = nextProps]
           ch == updateChildren(nextProps)
       IN  IF c.w.thrown # None THEN c.w
           ELSE reconcileDomChildren(Logged(W2, "reconcileDomChildren", <<ch>>), ch)

\* Mutant: an instance that already has its id generates no children again.
genMarkupChildrenOnce(W, idRoot) ==
  LET p  == W.props
      a  == generateSingleDomAttributes(
              Logged(W, "generateSingleDomAttributes", <<idRoot>>), idRoot)
      ch == IF W.rootDomId = None THEN genChildren(p) ELSE FromObject(<<>>)
      c  == generateDomChildren(
              Logged(a.w, "generateDomChildren", <<idRoot, ch>>), idRoot, ch)
  IN  [w      |-> [c.w EXCEPT !.kids = genChildren(p)],
       markup |-> [open |-> tagOpen, attrs |-> a.markup, children |-> c.markup,
                   close |-> tagClose]]

\* NativeComponentConstructor.prototype.genMarkup(idRoot): the world and the
\* markup returned.
\* An exception of a generator leaves the method there: nothing is returned.
genMarkup(W, idRoot) ==
  LET p  == W.props
      a  == generateSingleDomAttributes(
              Logged(W, "generateSingleDomAttributes", <<idRoot>>), idRoot)
      ch == genChildren(p)
      c  == generateDomChildren(
              Logged(a.w, "generateDomChildren", <<idRoot, ch>>), idRoot, ch)
  IN  IF a.w.thrown # None THEN [w |-> a.w, markup |-> None]
      ELSE IF c.w.thrown # None THEN [w |-> c.w, markup |-> None]
      ELSE [w      |-> c.w,
            markup |-> [open |-> tagOpen, attrs |-> a.markup, children |-> c.markup,
                        close |-> tagClose]]

(* ------------------------------------------------------------------ *)
(* The state machine of one component instance                        *)
(* ------------------------------------------------------------------ *)

VARIABLES
  props,        \* this.props
  rootDomId,    \* this._rootDomId
  rootDomNode,  \* this.rootDomNode
  kids,         \* the child collection the instance was last rendered with
  docContent,   \* the live node's raw inner content
  docKids,      \* the live node's children, in document order
  registry,     \* the ids that have entries in the delegation registry
  log,          \* the collaborators the last operation called, in order
  ops,          \* the document mutations the last operation issued
  thrown,       \* the error the last operation raised
  fault,        \* the collaborator that was to fail in the last operation
  lastOp,       \* the last operation: "new", "genMarkup" or "updateAllProps"
  before,       \* props, rootDomId, rootDomNode and given when the last update began
  given,        \* the properties of the constructor or of the last update that returned
  genHist       \* the last two genMarkup results since props last changed

domVars == <<props, rootDomId, rootDomNode, kids, docContent, docKids, registry,
             log, ops, thrown, fault, lastOp, before, given, genHist>>

World ==
  [props |-> props, rootDomId |-> rootDomId, rootDomNode |-> rootDomNode,
   kids |-> kids, docContent |-> docContent, docKids |-> docKids,
   registry |-> registry, log |-> log, ops |-> ops, thrown |-> thrown,
   fault |-> fault]

Becomes(W) ==
  /\ props' = W.props
  /\ rootDomId' = W.rootDomId
  /\ rootDomNode' = W.rootDomNode
  /\ kids' = W.kids
  /\ docContent' = W.docContent
  /\ docKids' = W.docKids
  /\ registry' = W.registry
  /\ log' = W.log
  /\ ops' = W.ops
  /\ thrown' = W.thrown
  /\ fault' = W.fault

\* The key of the child that the node with id `id` backs.
KeyOfId(root, items, id) ==
  items[CHOOSE i \in DOMAIN items : ChildId(root, items[i].key) = id].key

\* The world an operation starts in: nothing called, issued or thrown yet,
\* no collaborator set to fail.  Before an update every live child node is
\* marked with the identity it backs; before a genMarkup the marks are wiped.
Fresh(W, mark) ==
  [W EXCEPT !.log = <<>>, !.ops = <<>>, !.thrown = None, !.fault = "none",
            !.docKids = [i \in DOMAIN W.docKids |->
               [W.docKids[i] EXCEPT !.marker =
                  IF mark
                  THEN Some([shape |-> W.kids.shape,
                             key |-> KeyOfId(W.rootDomId[1], W.kids.items,
                                             W.docKids[i].domId)])
                  ELSE None]]]

\* The first paint: the markup is put into the document, and the handlers
\* of its nodes into the delegation registry.
Paint(W, markup) ==
  [W EXCEPT !.docContent = markup.attrs.content,
            !.docKids = [i \in DOMAIN markup.children |->
                           DocNode(markup.children[i].id, markup.children[i].width)],
            !.registry = {markup.children[i].id : i \in DOMAIN markup.children}]

LastTwo(s) == IF Len(s) > 2 THEN SubSeq(s, Len(s) - 1, Len(s)) ELSE s

\* The identifiers the instance and its children have.
AssignedIds(W) ==
  <<W.rootDomId>> \o [i \in DOMAIN W.kids.items |->
                        Some(ChildId(W.rootDomId[1], W.kids.items[i].key))]

\* The collaborators each method calls.
GenFaults == {"generateSingleDomAttributes", "generateDomChildren"}

UpdateFaults == {"controlSingleDomNode", "reconcileDomChildren"}

\* No collaborator has failed on the instance.  An instance on which one
\* failed is followed no further: the document and the instance may disagree.
Intact == thrown \in {None, Some(CONTROL_WITHOUT_BACKING_DOM)}

\* instance.genMarkup(idRoot), in which the collaborator f fails if f is not
\* "none"; the first markup returned is painted.
GenMarkup(idRoot, f) ==
  LET g == genMarkup([Fresh(World, FALSE) EXCEPT !.fault = f], idRoot)
  IN  /\ Intact
      /\ Becomes(IF rootDomId = None /\ g.w.thrown = None
                 THEN Paint(g.w, g.markup) ELSE g.w)
      /\ lastOp' = "genMarkup"
      /\ before' = None
      /\ given' = given
      /\ genHist' = IF g.w.thrown # None THEN genHist
                    ELSE LastTwo(Append(genHist,
                           [idRoot |-> idRoot, markup |-> g.markup,
                            ids |-> AssignedIds(g.w), props |-> props]))

\* instance.updateAllProps(nextProps), in which the collaborator f fails if
\* f is not "none".
UpdateAllProps(nextProps, f) ==
  /\ Intact
  /\ Becomes(updateAllProps([Fresh(World, rootDomId # None) EXCEPT !.fault = f],
                            nextProps))
  /\ lastOp' = "updateAllProps"
  /\ before' = Some([props |-> props, rootDomId |-> rootDomId,
                     rootDomNode |-> rootDomNode, given |-> given])
  /\ given' = IF thrown' = None THEN nextProps ELSE given
  /\ genHist' = IF rootDomId = None THEN genHist ELSE <<>>

Starts(W) ==
  /\ props = W.props
  /\ rootDomId = W.rootDomId
  /\ rootDomNode = W.rootDomNode
  /\ kids = W.kids
  /\ docContent = W.docContent
  /\ docKids = W.docKids
  /\ registry = W.registry
  /\ log = W.log
  /\ ops = W.ops
  /\ thrown = W.thrown
  /\ fault = W.fault

\* The instance as application code constructs it, not yet rendered.
DomInit ==
  /\ \E initProps \in Props :
        Starts(NativeComponentConstructor(initProps)) /\ given = initProps
  /\ lastOp = "new"
  /\ before = None
  /\ genHist = <<>>

(* ------------------------------------------------------------------ *)
(* StaticAsyncSearch.js                                               *)
(* ------------------------------------------------------------------ *)

\* Strings are sequences of characters.
toLowerCase(str) ==
  [i \in DOMAIN str |-> CASE str[i] = "A" -> "a" [] str[i] = "B" -> "b" [] OTHER -> str[i]]

\* String.prototype.indexOf: the first index (from 0) at which sub occurs in
\* str, or -1.
indexOf(str, sub) ==
  LET at == {i \in 0..(Len(str) - Len(sub)) : SubSeq(str, i + 1, i + Len(sub)) = sub}
  IN  IF at = {} THEN -1 ELSE CHOOSE i \in at : \A j \in at : i <= j

\* The entries search spaces are made of.
Joe == [keyWords |-> None, name |-> <<"A", "b">>, entity |-> "joe"]

Bea == [keyWords |-> Some(<<"b", "a">>), name |-> <<"A", "b">>, entity |-> "bea"]

Abe == [keyWords |-> None, name |-> <<"a", "B", "a">>, entity |-> "abe"]

\* The search spaces searchers are made from.
Spaces == {<<Joe>>, <<Bea, Joe>>, <<Abe, Bea>>}

\* The query texts.  The last one spells "constructor".
Texts ==
  {<<>>, <<"a", "B">>, <<"b">>, <<"c", "o", "n", "s", "t", "r", "u", "c", "t", "o", "r">>}

\* The property names an object made by {} inherits from Object.prototype,
\* among the query texts.
InheritedNames == {<<"c", "o", "n", "s", "t", "r", "u", "c", "t", "o", "r">>}

\* What such an inherited property holds: a function, not an array of
\* entities.
InheritedValue == <<"function Object">>

\* The searchers made with makeSearcher.
Searchers == {1, 2}

\* The loop of the searcher function: the entities of the entries that
\* match text, in the order of searchSpace.  keyWords || name: an empty or
\* undefined keyWords gives the name.
RECURSIVE matchFrom(_, _, _)
matchFrom(searchSpace, text, i) ==
  IF i > Len(searchSpace) THEN <<>>
  ELSE LET searchEntry == searchSpace[i]
           useAsKeywords ==
             IF searchEntry.keyWords # None /\ searchEntry.keyWords[1] # <<>>
             THEN searchEntry.keyWords[1] ELSE searchEntry.name
           hit == \/ text = <<>>
                  \/ /\ Len(text) # 0
                     /\ indexOf(toLowerCase(useAsKeywords), toLowerCase(text)) # -1
       IN  (IF hit THEN <<searchEntry.entity>> ELSE <<>>)
             \o matchFrom(searchSpace, text, i + 1)

VARIABLES
  searchSpace,  \* the search space each searcher was made from
  cache,        \* the module's cache: the own property stored for a text, if any
  timers,       \* the timeouts set and not yet fired, oldest first
  calls,        \* the calls made to the searchers, in order
  delivered     \* the callback invocations, in order

searchVars == <<searchSpace, cache, timers, calls, delivered>>

\* cb({matchingEntities: ..., text: ...}) of call n; sync: before the call
\* returned.
Result(n, entities, text, sync) ==
  [call |-> n, matchingEntities |-> entities, text |-> text, sync |-> sync]

\* cache[text] for var cache = {}: the own property when there is one,
\* otherwise what Object.prototype has under that name, otherwise undefined.
cacheGet(text) ==
  IF cache[text] # None THEN cache[text]
  ELSE IF text \in InheritedNames THEN Some(InheritedValue)
  ELSE None

\* Mutant: a call whose text already has a timeout pending sets none.
QueryJoinsPending(s, text) ==
  /\ Len(calls) < MaxCalls
  /\ LET n == Len(calls) + 1
         pending == \E i \in DOMAIN timers : timers[i].text = text
     IN  /\ calls' = Append(calls, [searcher |-> s, text |-> text,
                                    at |-> Len(delivered),
                                    timer |-> cacheGet(text) = None /\ ~pending])
         /\ IF cacheGet(text) # None
            THEN /\ delivered' = Append(delivered, Result(n, cacheGet(text)[1], text, TRUE))
                 /\ UNCHANGED timers
            ELSE /\ timers' = IF pending THEN timers
                              ELSE Append(timers,
                                     [call |-> n, text |-> text,
                                      res |-> matchFrom(searchSpace[s], text, 1)])
                 /\ UNCHANGED delivered
  /\ UNCHANGED <<searchSpace, cache>>

\* searcher(text, cb) for the searcher s: a truthy cache[text] is handed to
\* cb at once; otherwise the matches are computed and a timeout is set.
\* A call is recorded with the number of callback invocations before it (at)
\* and whether it set a timeout (timer).
Query(s, text) ==
  /\ Len(calls) < MaxCalls
  /\ LET n == Len(calls) + 1
     IN  /\ calls' = Append(calls, [searcher |-> s, text |-> text,
                                    at |-> Len(delivered),
                                    timer |-> cacheGet(text) = None])
         /\ IF cacheGet(text) # None
            THEN /\ delivered' = Append(delivered, Result(n, cacheGet(text)[1], text, TRUE))
                 /\ UNCHANGED timers
            ELSE /\ timers' = Append(timers,
                      [call |-> n, text |-> text,
                       res |-> matchFrom(searchSpace[s], text, 1)])
                 /\ UNCHANGED delivered
  /\ UNCHANGED <<searchSpace, cache>>

\* The oldest timeout fires (all are set for 100 ms): the result is cached
\* and handed to cb.
TimerFires ==
  /\ timers # <<>>
  /\ LET t == Head(timers)
     IN  /\ cache' = [cache EXCEPT ![t.text] = Some(t.res)]
         /\ delivered' = Append(delivered, Result(t.call, t.res, t.text, FALSE))
  /\ timers' = Tail(timers)
  /\ UNCHANGED <<searchSpace, calls>>

\* No searcher has been called yet; the module's cache is empty.
SearchStart(spaces) ==
  /\ searchSpace = spaces
  /\ cache = [t \in Texts |-> None]
  /\ timers = <<>>
  /\ calls = <<>>
  /\ delivered = <<>>

(* ------------------------------------------------------------------ *)
(* The specifications                                                 *)
(* ------------------------------------------------------------------ *)

vars == <<domVars, searchVars>>

\* The component instance under any updates and markup generations.
Init == DomInit /\ SearchStart([s \in Searchers |-> <<Joe>>])

Next ==
  \/ /\ \E idRoot \in IdRoots, f \in GenFaults \cup {"none"} : GenMarkup(idRoot, f)
     /\ UNCHANGED searchVars
  \/ /\ \E nextProps \in Props, f \in UpdateFaults \cup {"none"} :
          UpdateAllProps(nextProps, f)
     /\ UNCHANGED searchVars

Spec == Init /\ [][Next]_vars

\* Two searchers under any calls and timeouts.
SearchInit ==
  /\ Starts(NativeComponentConstructor(MkProps(None, None, None, <<>>)))
  /\ given = MkProps(None, None, None, <<>>)
  /\ lastOp = "new" /\ before = None /\ genHist = <<>>
  /\ \E spaces \in [Searchers -> Spaces] : SearchStart(spaces)

SearchNext ==
  \/ /\ \E s \in Searchers, text \in Texts : Query(s, text)
     /\ UNCHANGED domVars
  \/ /\ TimerFires
     /\ UNCHANGED domVars

SearchSpec == SearchInit /\ [][SearchNext]_vars

\* The same, with every timeout that was set firing in the end.
SearchFair == SearchSpec /\ WF_searchVars(TimerFires)

(* ------------------------------------------------------------------ *)
(* Properties of updateAllProps and genMarkup                         *)
(* ------------------------------------------------------------------ *)

Fns(l) == [i \in DOMAIN l |-> l[i].fn]

Count(l, fn) == Cardinality({i \in DOMAIN l : l[i].fn = fn})

CountOps(name) == Cardinality({i \in DOMAIN ops : ops[i].op = name})

\* The last operation was an updateAllProps that returned.
Updated == lastOp = "updateAllProps" /\ thrown = None

\* The child collection the written rules give a properties record: the
\* childList when one is supplied, otherwise the childSet when one is
\* supplied, otherwise the legacy named children.
ChildrenOf(p) ==
  CASE p.childList # None -> [shape |-> "list",
                              items |-> [i \in DOMAIN p.childList[1] |->
                                 [key |-> IndexKey(i), child |-> p.childList[1][i]]]]
    [] p.childList = None /\ p.childSet # None ->
                             [shape |-> "keyed", items |-> p.childSet[1]]
    [] OTHER -> [shape |-> "keyed", items |-> p.named]

OldChildren == ChildrenOf(before[1].props)

NewChildren == ChildrenOf(props)

\* The marker of the node that backed the child with key k before the update.
OldMark(k) == Some([shape |-> OldChildren.shape, key |-> k])

Marked(m) == \E i \in DOMAIN docKids : docKids[i].marker = m

\* C1: an updateAllProps that returns has called controlSingleDomNode once
\* and then reconcileDomChildren once; in no operation is
\* reconcileDomChildren called without controlSingleDomNode before it.
C1_NodeBeforeChildren ==
  /\ Updated => Fns(log) = <<"controlSingleDomNode", "reconcileDomChildren">>
  /\ \A i \in DOMAIN log :
       log[i].fn = "reconcileDomChildren" =>
         \E j \in 1..(i - 1) : log[j].fn = "controlSingleDomNode"

C1_Witness == Updated /\ Len(log) = 2 /\ Len(docKids) > 0

\* C2: updateAllProps on an instance without a root dom id throws
\* CONTROL_WITHOUT_BACKING_DOM, calls neither reconciliation and leaves
\* props and rootDomNode as they were.
C2_ThrowsWithoutBackingDom ==
  (lastOp = "updateAllProps" /\ before[1].rootDomId = None) =>
     /\ thrown = Some(CONTROL_WITHOUT_BACKING_DOM)
     /\ log = <<>>
     /\ props = before[1].props
     /\ rootDomNode = before[1].rootDomNode

C2_Witness ==
  /\ lastOp = "updateAllProps"
  /\ before[1].rootDomId = None
  /\ thrown = Some(CONTROL_WITHOUT_BACKING_DOM)

\* C3: the collection updateAllProps hands to reconcileDomChildren and the
\* collection genMarkup hands to generateDomChildren are both the one the
\* precedence childList, childSet, legacy gives the instance's properties.
C3_ChildPrecedence ==
  /\ Updated => log[2].args = <<ChildrenOf(props)>>
  /\ (lastOp = "genMarkup" /\ thrown = None) => log[2].args[2] = ChildrenOf(props)

C3_Witness ==
  /\ Updated
  /\ props.childList = Some(<<>>)
  /\ props.childSet # None /\ props.childSet # Some(<<>>)
  /\ props.named # <<>>

\* The content property of the new properties is there and differs.
ContentReplaced ==
  Updated /\ props.content # None /\ props.content # before[1].props.content

\* C4, as claimed: when the new content differs the inner content is
\* replaced and reconcileDomChildren is not called in that update.
C4_ChildrenSkipped ==
  ContentReplaced =>
     /\ docContent = props.content
     /\ Count(log, "reconcileDomChildren") = 0

\* C4, amended: when the new content differs the inner content is replaced
\* wholesale (no old child node is left) and reconcileDomChildren is still
\* called once, after controlSingleDomNode, with the new properties' child
\* collection.
C4_ContentThenChildren ==
  ContentReplaced =>
     /\ docContent = props.content
     /\ \A i \in DOMAIN docKids : docKids[i].marker = None
     /\ Fns(log) = <<"controlSingleDomNode", "reconcileDomChildren">>
     /\ log[2].args = <<ChildrenOf(props)>>

C4_Witness == ContentReplaced /\ Len(OldChildren.items) >= 2

\* C5: after an update the ids of the live node's children, in document
\* order, are those of the new child sequence in its order.
C5_DocumentOrder ==
  Updated =>
     [i \in DOMAIN docKids |-> docKids[i].domId]
       = [i \in DOMAIN NewChildren.items |->
            ChildId(rootDomId[1], NewChildren.items[i].key)]

C5_Witness ==
  /\ Updated
  /\ CountOps("insert") > 0 /\ CountOps("remove") > 0 /\ CountOps("move") > 0
  /\ Len(docKids) = 2

\* The update took a keyed sequence to a permutation of the same keys.
Permuted ==
  /\ Updated
  /\ OldChildren.shape = "keyed" /\ NewChildren.shape = "keyed"
  /\ KeysOf(OldChildren.items) = KeysOf(NewChildren.items)

\* C6: when a keyed sequence is updated to a permutation of its keys every
\* child is backed by the node that backed it before, no node is inserted or
\* removed, and a rotation of three children to the right takes 1 or 2 moves.
C6_PermutationKeepsNodes ==
  Permuted =>
     /\ Len(docKids) = Len(NewChildren.items)
     /\ \A i \in DOMAIN docKids : docKids[i].marker = OldMark(NewChildren.items[i].key)
     /\ \A i \in DOMAIN ops : ops[i].op \in {"move", "setAttr", "setContent"}
     /\ (/\ Len(NewChildren.items) = 3
         /\ NewChildren.items[1].key = OldChildren.items[3].key
         /\ NewChildren.items[2].key = OldChildren.items[1].key
         /\ NewChildren.items[3].key = OldChildren.items[2].key)
        => CountOps("move") \in {1, 2}

C6_Witness ==
  /\ Permuted
  /\ Len(NewChildren.items) = 3
  /\ NewChildren.items[1].key = OldChildren.items[3].key
  /\ NewChildren.items[2].key = OldChildren.items[1].key
  /\ NewChildren.items[3].key = OldChildren.items[2].key
  /\ CountOps("move") = 1

\* The child with key k keeps its identity over the update: the key is in
\* both sequences and the sequences have one shape.
Kept(k) ==
  /\ OldChildren.shape = NewChildren.shape
  /\ HasKey(OldChildren.items, k) /\ HasKey(NewChildren.items, k)

\* C7: after an update the node that backed an old child is gone from the
\* document exactly when the child's identity is not in the new sequence,
\* and its delegation entries were purged then; a child in both sequences is
\* backed by the same node, and no attribute was set on it when its
\* properties are unchanged.
C7_RemovedExactlyWhenAbsent ==
  Updated =>
     \A k \in KeysOf(OldChildren.items) :
        LET id == ChildId(rootDomId[1], k)
        IN  /\ ~Marked(OldMark(k)) <=> ~Kept(k)
            /\ ~Kept(k) =>
                 /\ Op("purge", id) \in Range(ops)
                 /\ id \in registry => Op("insert", id) \in Range(ops)
            /\ Kept(k) =>
                 /\ docKids[PosOfId(docKids, id)].marker = OldMark(k)
                 /\ Op("purge", id) \notin Range(ops)
                 /\ ChildOfKey(OldChildren.items, k) = ChildOfKey(NewChildren.items, k)
                      => Op("setAttr", id) \notin Range(ops)

C7_Witness ==
  /\ Updated
  /\ OldChildren.shape = "keyed" /\ NewChildren.shape = "keyed"
  /\ Len(OldChildren.items) = 3
  /\ NewChildren.items = <<OldChildren.items[1], OldChildren.items[3]>>
  /\ CountOps("remove") = 1 /\ CountOps("purge") = 1

\* The update changed the shape of the child specification.
ShapeChanged ==
  /\ Updated
  /\ {OldChildren.shape, NewChildren.shape} = {"list", "keyed"}
  /\ before[1].props.childList # None \/ before[1].props.childSet # None
  /\ props.childList # None \/ props.childSet # None

\* C8: when the child specification changes between a list and a set no node
\* survives: every old child's node is removed and every new child's node is
\* inserted.
C8_ShapeChangeKeepsNothing ==
  ShapeChanged =>
     /\ \A i \in DOMAIN docKids : docKids[i].marker = None
     /\ \A k \in KeysOf(OldChildren.items) :
          Op("remove", ChildId(rootDomId[1], k)) \in Range(ops)
     /\ \A k \in KeysOf(NewChildren.items) :
          Op("insert", ChildId(rootDomId[1], k)) \in Range(ops)

C8_Witness ==
  /\ ShapeChanged
  /\ OldChildren.shape = "list"
  /\ Len(OldChildren.items) = 2
  /\ KeysOf(NewChildren.items) = {"0", "1"}

\* C9: two genMarkup calls with one id root and no change of props between
\* them give the same markup and the same identifiers and leave props alone.
C9_GenMarkupIdempotent ==
  (Len(genHist) = 2 /\ genHist[1].idRoot = genHist[2].idRoot) =>
     /\ genHist[1].markup = genHist[2].markup
     /\ genHist[1].ids = genHist[2].ids
     /\ genHist[1].props = genHist[2].props
     /\ props = genHist[2].props

C9_Witness ==
  /\ Len(genHist) = 2
  /\ genHist[1].idRoot = genHist[2].idRoot
  /\ Len(genHist[2].markup.children) = 3

\* The collaborator set to fail was called in the last operation.
Failed == fault # "none" /\ Count(log, fault) > 0

\* C13: when a collaborator fails in updateAllProps or genMarkup the method
\* raises that failure to its caller and calls nothing after it; when
\* controlSingleDomNode fails reconcileDomChildren is not called and props is
\* what it was before the call.
C13_FailuresPropagate ==
  /\ Failed =>
        /\ thrown = Some(Failure(fault))
        /\ log[Len(log)].fn = fault
        /\ Count(log, fault) = 1
  /\ (Failed /\ fault = "controlSingleDomNode") =>
        /\ Count(log, "reconcileDomChildren") = 0
        /\ props = before[1].props

C13_Witness ==
  /\ Failed
  /\ fault = "controlSingleDomNode"
  /\ thrown = Some(Failure("controlSingleDomNode"))
  /\ log[1].args[1] # props
  /\ Len(docKids) = 2

\* C14: an updateAllProps that returns has passed the properties it was
\* given as the new ones, and those of the constructor or of the update that
\* returned before it as the old ones, to controlSingleDomNode; props held
\* the given properties when reconcileDomChildren was called; and props
\* holds them after it.  Until an update returns, props holds the
\* constructor's properties.
C14_PropsFollowUpdates ==
  /\ Intact => props = given
  /\ Updated =>
        /\ log[1].fn = "controlSingleDomNode"
        /\ log[1].args = <<given, before[1].given>>
        /\ log[2].fn = "reconcileDomChildren"
        /\ log[2].props = given
        /\ props = given

\* An update that returned after an earlier one had: the earlier one left
\* the node it looked up in rootDomNode.
C14_Witness ==
  /\ Updated
  /\ before[1].rootDomNode # None
  /\ given # before[1].given
  /\ given.content = before[1].given.content

(* ------------------------------------------------------------------ *)
(* Properties of the searchers                                        *)
(* ------------------------------------------------------------------ *)

\* The field an entry is matched on: keyWords when present, otherwise name.
EffectiveKeywords(e) == IF e.keyWords # None THEN e.keyWords[1] ELSE e.name

SameLetter(a, b) == {a, b} \in {{"a"}, {"A"}, {"b"}, {"B"}, {"a", "A"}, {"b", "B"}}

\* text occurs in str, letter case aside.
Contains(str, text) ==
  \E off \in 0..(Len(str) - Len(text)) :
     \A i \in 1..Len(text) : SameLetter(str[off + i], text[i])

\* The entities of the entries of space that match text, in space order.
Matching(space, text) ==
  LET idx == {i \in DOMAIN space : Contains(EffectiveKeywords(space[i]), text)}
      F[i \in 0..Len(space)] ==
        IF i = 0 THEN <<>>
        ELSE IF i \in idx THEN Append(F[i - 1], space[i].entity) ELSE F[i - 1]
  IN  F[Len(space)]

\* C10: every result a searcher delivers holds exactly the entities of the
\* entries of its own search space whose effective keyword field contains
\* the text, letter case aside, in search-space order.
C10_DeliversOwnMatches ==
  \A i \in DOMAIN delivered :
     delivered[i].matchingEntities
       = Matching(searchSpace[calls[delivered[i].call].searcher], delivered[i].text)

\* The delivery i came through a timeout and the call n, with the same text,
\* was made after it.
LaterCall(i, n) ==
  /\ ~delivered[i].sync
  /\ calls[n].text = delivered[i].text
  /\ calls[n].at >= i

\* C11: once a text was delivered through a timeout, every later call with
\* that text sets no timeout and has its callback invoked before it returns,
\* with that text and the matchingEntities delivered then.
C11_CachedAnswersAtOnce ==
  \A i \in DOMAIN delivered, n \in DOMAIN calls :
     LaterCall(i, n) =>
        /\ ~calls[n].timer
        /\ calls[n].at + 1 \in DOMAIN delivered
        /\ delivered[calls[n].at + 1]
             = Result(n, delivered[i].matchingEntities, calls[n].text, TRUE)

\* No delivery through a timeout of the text of call n came before call n.
Miss(n) ==
  \A i \in DOMAIN delivered :
     ~(~delivered[i].sync /\ delivered[i].text = calls[n].text /\ i <= calls[n].at)

\* C12: a call whose text had no delivery through a timeout before it sets a
\* timeout and never has its callback invoked before it returns; its callback
\* is invoked only when that timeout fires, and the cache holds an entry for a
\* text only once a timeout for that text has fired.
C12_MissAnswersLater ==
  /\ \A n \in DOMAIN calls :
        Miss(n) => /\ calls[n].timer
                   /\ \A i \in DOMAIN delivered :
                        delivered[i].call = n => ~delivered[i].sync /\ i > calls[n].at
  /\ \A t \in Texts :
        cache[t] # None => \E i \in DOMAIN delivered :
                              ~delivered[i].sync /\ delivered[i].text = t

\* The callback invocations of call n.
Answers(n) == {i \in DOMAIN delivered : delivered[i].call = n}

\* The callback of call n was invoked once, with the text of the call.
AnsweredOnce(n) ==
  /\ Cardinality(Answers(n)) = 1
  /\ \A i \in Answers(n) : delivered[i].text = calls[n].text

\* C15: when every timeout set fires, every call to a searcher has its
\* callback invoked in the end, never more than once, and with the text of
\* that call, however the calls outstanding interleave.
C15_EveryCallAnsweredOnce ==
  /\ [](\A n \in DOMAIN calls :
          /\ Cardinality(Answers(n)) <= 1
          /\ \A i \in Answers(n) : delivered[i].text = calls[n].text)
  /\ \A n \in 1..MaxCalls : (n \in DOMAIN calls) ~> (n \in DOMAIN calls /\ AnsweredOnce(n))

\* Two calls with one text and one with another were outstanding together
\* and each was answered once.
C15_Witness ==
  /\ Len(calls) = 3
  /\ \A n \in DOMAIN calls : calls[n].timer /\ calls[n].at = 0 /\ AnsweredOnce(n)
  /\ calls[1].text = calls[2].text
  /\ calls[3].text # calls[1].text

\* The entities of the entries of a search space.
EntitiesOf(space) == {space[i].entity : i \in DOMAIN space}

\* The search space of the searcher that delivery i answers.
SpaceOf(i) == searchSpace[calls[delivered[i].call].searcher]

\* C16: what a searcher delivers depends on its own search space and the
\* text alone: no delivery holds an entity that only another searcher's
\* search space has, and two deliveries for one text by searchers of one
\* search space hold the same entities, whatever was called before.
C16_SearchersKeptApart ==
  /\ \A i \in DOMAIN delivered, s \in Searchers :
        Range(delivered[i].matchingEntities) \cap EntitiesOf(searchSpace[s])
          \subseteq EntitiesOf(SpaceOf(i))
  /\ \A i, j \in DOMAIN delivered :
        (delivered[i].text = delivered[j].text /\ SpaceOf(i) = SpaceOf(j))
          => delivered[i].matchingEntities = delivered[j].matchingEntities

====
